---- MODULE Spec2Model ----
(***************************************************************************)
(* A model of bot.py: a Discord bot that reads Netflix sign-in codes and   *)
(* travel-verification links out of a mailbox.                             *)
(*                                                                         *)
(* Text is modelled as a sequence of one-character strings, so that the    *)
(* substring tests and the regular expressions of the source are computed  *)
(* character by character.  Python's None is the string "None_" wrapped in *)
(* the definition None.                                                    *)
(***************************************************************************)
EXTENDS Integers, Sequences, FiniteSets, TLC

VARIABLES
    boot,                \* the process at start-up (module level code and __main__)
    xp,                  \* one call of get_sign_in_code after the locator returned
    now,                 \* time.time(), in whole seconds
    user_request_times,  \* the global rate-limit map, user id -> list of times
    admitted,            \* history: the times at which each user was admitted
    lastcall,            \* history: the last call of is_rate_limited
    mailbox,             \* the Netflix messages of the inbox, oldest first
    inv,                 \* the command invocations (one record per task)
    loop,                \* the task the event loop is running, 0 for none
    faults,              \* how many calls to the outside have failed so far
    rs                   \* one call of access_verify_link

vars == <<boot, xp, now, user_request_times, admitted, lastcall, mailbox, inv, loop, faults, rs>>

None == "None_"

(***************************************************************************)
(* Text                                                                    *)
(***************************************************************************)
UpperCase == <<"A","B","C","D","E","F","G","H","I","J","K","L","M",
               "N","O","P","Q","R","S","T","U","V","W","X","Y","Z">>
LowerCase == <<"a","b","c","d","e","f","g","h","i","j","k","l","m",
               "n","o","p","q","r","s","t","u","v","w","x","y","z">>
Digits == {"0","1","2","3","4","5","6","7","8","9"}

\* str.lower() on one character (the Vietnamese letters, written
\* here by name, occur in lower case only)
LowerOf == [c \in {UpperCase[k] : k \in 1..26} |->
               LowerCase[CHOOSE k \in 1..26 : UpperCase[k] = c]]
LowerChar(c) == IF c \in DOMAIN LowerOf THEN LowerOf[c] ELSE c

\* str.lower()
Lower(s) == [k \in 1..Len(s) |-> LowerChar(s[k])]

\* s[i:].startswith(p), i counted from 1
StartsWithAt(s, i, p) ==
    /\ i >= 1
    /\ i + Len(p) - 1 <= Len(s)
    /\ \A k \in 1..Len(p) : s[i + k - 1] = p[k]

\* p in s
Contains(s, p) == \E i \in 1..(Len(s) + 1) : StartsWithAt(s, i, p)

\* "".join(parts)
RECURSIVE Concat(_)
Concat(parts) ==
    IF parts = <<>> THEN <<>> ELSE Head(parts) \o Concat(Tail(parts))

IsDigit(c) == c \in Digits
IsSpace(c) == c \in {" ", "\n", "\t", "\r"}
\* the Vietnamese letters of the texts used here, written by name
NonAscii ==
    {"a_tilde", "a_circumflex_dot", "a_grave", "d_stroke", "e_circumflex_hook",
     "a_breve", "u_hook", "a_dot"}
\* bytes(s, "ascii") does not raise UnicodeEncodeError
IsAscii(s) == \A k \in 1..Len(s) : s[k] \notin NonAscii
\* the letters of the texts used here (Python's \w is Unicode aware)
Letters ==
    {UpperCase[k] : k \in 1..26} \cup {LowerCase[k] : k \in 1..26} \cup NonAscii
IsLetter(c) == c \in Letters
\* \w
IsWord(c) == IsLetter(c) \/ IsDigit(c) \/ c = "_"

(***************************************************************************)
(* Start-up: lines 26-28 read the environment, __main__ validates it.      *)
(***************************************************************************)
\* what an environment variable can hold: unset, empty, or a value
EnvValues == {None, "", "secret", "other"}

\* os.getenv(name): None when the variable is unset
getenv(env, name) == env[name]

\* str(x) on what os.getenv returned
str(x) == IF x = None THEN "None" ELSE x

\* Python truthiness of an Optional[str]
Truthy(x) == x # None /\ x # ""

TOKEN(env) == getenv(env, "TOKEN")
EMAIL(env) == str(getenv(env, "EMAIL"))
PASSWORD(env) == str(getenv(env, "PASSWORD"))

BootIdle == [pc |-> "off", env |-> [n \in {"TOKEN", "EMAIL", "PASSWORD"} |-> None],
             TOKEN |-> None, EMAIL |-> None, PASSWORD |-> None,
             exit_status |-> -1, bot_run |-> FALSE]

InitBoot ==
    \E env \in [{"TOKEN", "EMAIL", "PASSWORD"} -> EnvValues] :
        boot = [BootIdle EXCEPT !.pc = "import", !.env = env]

\* lines 26-28: the module level assignments
LoadConfig ==
    /\ boot.pc = "import"
    /\ boot' = [boot EXCEPT !.pc = "main",
                            !.TOKEN = TOKEN(boot.env),
                            !.EMAIL = EMAIL(boot.env),
                            !.PASSWORD = PASSWORD(boot.env)]
    /\ UNCHANGED <<xp, now, user_request_times, admitted, lastcall, mailbox, inv, loop, faults, rs>>

\* lines 610-614
CheckToken ==
    /\ boot.pc = "main"
    /\ IF ~Truthy(boot.TOKEN)
       THEN boot' = [boot EXCEPT !.pc = "exited", !.exit_status = 1]
       ELSE boot' = [boot EXCEPT !.pc = "token_ok"]
    /\ UNCHANGED <<xp, now, user_request_times, admitted, lastcall, mailbox, inv, loop, faults, rs>>

\* lines 616-620
CheckCredentials ==
    /\ boot.pc = "token_ok"
    /\ IF ~Truthy(boot.EMAIL) \/ ~Truthy(boot.PASSWORD)
       THEN boot' = [boot EXCEPT !.pc = "exited", !.exit_status = 1]
       ELSE boot' = [boot EXCEPT !.pc = "validated"]
    /\ UNCHANGED <<xp, now, user_request_times, admitted, lastcall, mailbox, inv, loop, faults, rs>>

\* lines 624-626: bot.run(TOKEN) is entered
RunBot ==
    /\ boot.pc = "validated"
    /\ boot' = [boot EXCEPT !.pc = "running", !.bot_run = TRUE]
    /\ UNCHANGED <<xp, now, user_request_times, admitted, lastcall, mailbox, inv, loop, faults, rs>>

\* lines 627-629: bot.run raised (a rejected token, no network)
RunBotFails ==
    /\ boot.pc = "running"
    /\ boot' = [boot EXCEPT !.pc = "exited", !.exit_status = 1]
    /\ UNCHANGED <<xp, now, user_request_times, admitted, lastcall, mailbox, inv, loop, faults, rs>>

\* bot.run returned (the bot was closed): the script ends with status 0
RunBotReturns ==
    /\ boot.pc = "running"
    /\ boot' = [boot EXCEPT !.pc = "exited", !.exit_status = 0]
    /\ UNCHANGED <<xp, now, user_request_times, admitted, lastcall, mailbox, inv, loop, faults, rs>>

(***************************************************************************)
(* Code extraction: SIGN_IN_CODE_REGEX (lines 42-45) and the fallback      *)
(* chain of get_sign_in_code (lines 329-363).  Each operator computes what *)
(* re.search computes: the leftmost position at which the pattern         *)
(* matches, and group(1) of that match.                                    *)
(***************************************************************************)
ANCHOR_VN_LONG == <<"n","h","a_circumflex_dot","p"," ","m","a_tilde"," ","n","a_grave","y"," ","d_stroke","e_circumflex_hook"," ","d_stroke","a_breve","n","g"," ","n","h","a_circumflex_dot","p">>
ANCHOR_VN_SHORT == <<"m","a_tilde"," ","d_stroke","a_breve","n","g"," ","n","h","a_circumflex_dot","p">>
ANCHOR_VERIFICATION == <<"v","e","r","i","f","i","c","a","t","i","o","n"," ","c","o","d","e">>
ANCHOR_SIGN == <<"s","i","g","n">>
ANCHOR_IN_CODE == <<"i","n"," ","c","o","d","e">>

\* \d{4,8}: the shortest and the longest run of digits a pattern captures
MinDigits == 4
MaxDigits == 8

\* the number of consecutive characters from position q on that satisfy P
RunLen(s, q, P(_)) ==
    IF q > Len(s) THEN 0
    ELSE LET stops == {k \in q..(Len(s) + 1) : k = Len(s) + 1 \/ ~P(s[k])}
         IN (CHOOSE k \in stops : \A j \in stops : k <= j) - q

NotDigitNotNewline(c) == ~IsDigit(c) /\ c # "\n"
NotDigit(c) == ~IsDigit(c)

DigitCapture_mut(s, q) ==
    LET n == RunLen(s, q, IsDigit)
    IN IF n < MinDigits THEN <<>> ELSE SubSeq(s, q, q + n - 1)

\* (\d{4,8}) at q, greedy: the capture, or <<>> when fewer than 4 digits follow
DigitCapture(s, q) ==
    LET n == RunLen(s, q, IsDigit)
        k == IF n > MaxDigits THEN MaxDigits ELSE n
    IN IF n < MinDigits THEN <<>> ELSE SubSeq(s, q, q + k - 1)

\* the positions just after a phrase anchor of SIGN_IN_CODE_REGEX that starts
\* at p; ls is the lower-cased text (re.IGNORECASE)
AnchorEnds(ls, p) ==
    {p + Len(a) : a \in {x \in {ANCHOR_VN_LONG, ANCHOR_VN_SHORT, ANCHOR_VERIFICATION} :
                            StartsWithAt(ls, p, x)}}
    \cup {p + 4 + d + 7 : d \in {d \in {0, 1} :
            /\ StartsWithAt(ls, p, ANCHOR_SIGN)
            /\ d = 1 => (p + 4 <= Len(ls) /\ ls[p + 4] # "\n")
            /\ StartsWithAt(ls, p + 4 + d, ANCHOR_IN_CODE)}}

\* the characters SIGN_IN_CODE_REGEX skips between the anchor and the digits:
\* [^\d\n]*
SkipToDigits_mut(s, e) == e + RunLen(s, e, NotDigit)
SkipToDigits(s, e) == e + RunLen(s, e, NotDigitNotNewline)

\* group(1) of SIGN_IN_CODE_REGEX matched at p, or <<>>
MainRegexAt(s, p) ==
    LET caps == {DigitCapture(s, SkipToDigits(s, e)) : e \in AnchorEnds(Lower(s), p)} \ {<<>>}
    IN IF caps = {} THEN <<>> ELSE CHOOSE c \in caps : TRUE

\* line 340: anchor [\s\n]+ anchor [\s\n]+ (\d{4,8})
VietnameseAt(s, p) ==
    LET ls == Lower(s)
        e1 == p + Len(ANCHOR_VN_LONG)
        w1 == RunLen(s, e1, IsSpace)
        e2 == e1 + w1 + Len(ANCHOR_VN_LONG)
        w2 == RunLen(s, e2, IsSpace)
    IN IF /\ StartsWithAt(ls, p, ANCHOR_VN_LONG)
          /\ w1 >= 1
          /\ StartsWithAt(ls, e1 + w1, ANCHOR_VN_LONG)
          /\ w2 >= 1
       THEN DigitCapture(s, e2 + w2)
       ELSE <<>>

\* ^ under re.MULTILINE
LineStart(s, p) == p = 1 \/ s[p - 1] = "\n"
\* $ under re.MULTILINE
LineEnd(s, p) == p = Len(s) + 1 \/ s[p] = "\n" 

\* line 351: ^\s*(\d{4,8})\s*$
SimpleAt(s, p) ==
    LET q == p + RunLen(s, p, IsSpace)
        n == RunLen(s, q, IsDigit)
        r == q + n
    IN IF /\ LineStart(s, p)
          /\ n >= MinDigits /\ n <= MaxDigits
          /\ \E k \in r..(r + RunLen(s, r, IsSpace)) : LineEnd(s, k)
       THEN SubSeq(s, q, r - 1)
       ELSE <<>>

WordBoundary_mut(s, p) == TRUE

\* \b at position p (between s[p-1] and s[p])
WordBoundary(s, p) ==
    LET before == p > 1 /\ IsWord(s[p - 1])
        after == p <= Len(s) /\ IsWord(s[p])
    IN before # after

\* line 359: \b(\d{4,8})\b
FallbackAt(s, p) ==
    LET n == RunLen(s, p, IsDigit)
        ks == {k \in MinDigits..MaxDigits : k <= n /\ WordBoundary(s, p + k)}
    IN IF WordBoundary(s, p) /\ ks # {}
       THEN SubSeq(s, p, p + (CHOOSE k \in ks : \A j \in ks : j <= k) - 1)
       ELSE <<>>

\* re.search: group(1) at the leftmost position where At gives a match
re_search(s, At(_, _)) ==
    LET hits == {p \in 1..(Len(s) + 1) : At(s, p) # <<>>}
    IN IF hits = {} THEN <<>>
       ELSE At(s, CHOOSE p \in hits : \A q \in hits : p <= q)

\* the four patterns in the order of lines 329, 339, 350 and 359, and group(1)
\* of the search of the k-th one in s (<<>>: no match)
TierNames == <<"main regex", "Vietnamese pattern", "simple pattern", "fallback pattern">>
TierMatch(k, s) ==
    CASE k = 1 -> re_search(s, MainRegexAt)
      [] k = 2 -> re_search(s, VietnameseAt)
      [] k = 3 -> re_search(s, SimpleAt)
      [] OTHER -> re_search(s, FallbackAt)

ExtractCode_mut(content) ==
    LET order == <<4, 3, 2, 1>>
        hits == {n \in 1..4 : TierMatch(order[n], content) # <<>>}
        first == CHOOSE n \in hits : \A m \in hits : n <= m
    IN IF hits = {} THEN [found_code |-> <<>>, pattern_used |-> "", tried |-> 4]
       ELSE [found_code |-> TierMatch(order[first], content),
             pattern_used |-> TierNames[order[first]], tried |-> first]

\* lines 326-363: found_code and pattern_used ("" and <<>> when nothing
\* matched), and the number of searches that were run: a pattern is searched
\* in the else branch of the one before it
ExtractCode(content) ==
    LET m1 == TierMatch(1, content)
        m2 == TierMatch(2, content)
        m3 == TierMatch(3, content)
        m4 == TierMatch(4, content)
    IN IF m1 # <<>>
       THEN [found_code |-> m1, pattern_used |-> TierNames[1], tried |-> 1]
       ELSE IF m2 # <<>>
       THEN [found_code |-> m2, pattern_used |-> TierNames[2], tried |-> 2]
       ELSE IF m3 # <<>>
       THEN [found_code |-> m3, pattern_used |-> TierNames[3], tried |-> 3]
       ELSE IF m4 # <<>>
       THEN [found_code |-> m4, pattern_used |-> TierNames[4], tried |-> 4]
       ELSE [found_code |-> <<>>, pattern_used |-> "", tried |-> 4]

(***************************************************************************)
(* Expiry: parse_email_date (lines 48-61) and is_code_expired (64-91).     *)
(* A Date header is a record: kind "empty" is the empty string, "garbage"  *)
(* a text parsedate_to_datetime rejects, "rfc2822" a well-formed date with *)
(* its wall-clock time in seconds and its zone; aware = FALSE is the zone  *)
(* "-0000", for which parsedate_to_datetime returns a naive datetime.      *)
(* kind "absent" is a message without the header, "none" is Python's None. *)
(***************************************************************************)
EXPIRY_MINUTES == 15

NoDate == [kind |-> "none", wall |-> 0, aware |-> FALSE, offset |-> 0]
EmptyDate == [kind |-> "empty", wall |-> 0, aware |-> FALSE, offset |-> 0]
AbsentDate == [kind |-> "absent", wall |-> 0, aware |-> FALSE, offset |-> 0]
GarbageDate == [kind |-> "garbage", wall |-> 0, aware |-> FALSE, offset |-> 0]
Rfc2822(wall, aware, offset) ==
    [kind |-> "rfc2822", wall |-> wall, aware |-> aware, offset |-> offset]

\* lines 48-61: the datetime, or NoDate for None
parse_email_date(date_str) ==
    IF date_str.kind \in {"empty", "none"} THEN NoDate              \* line 51
    ELSE IF date_str.kind = "garbage" THEN NoDate                   \* lines 59-61
    ELSE [kind |-> "datetime", wall |-> date_str.wall,
          aware |-> date_str.aware, offset |-> date_str.offset]

MSG_UNKNOWN == <<"U","n","k","n","o","w","n"," ","e","m","a","i","l"," ","d","a","t","e">>
MSG_EXPIRED == <<"C","o","d","e"," ","e","x","p","i","r","e","d">>
MSG_VALID == <<"C","o","d","e"," ","v","a","l","i","d">>

\* lines 72-78: now - email_date in seconds, a naive datetime taken as UTC
time_diff(email_date, nowv) ==
    IF email_date.aware
    THEN nowv - (email_date.wall - email_date.offset)
    ELSE nowv - email_date.wall

\* line 80: minutes_elapsed > expiry_minutes, with minutes_elapsed =
\* total_seconds() / 60 (both sides are multiplied by 60 here)
Elapsed_mut(seconds, expiry_minutes) == seconds >= expiry_minutes * 60
Elapsed(seconds, expiry_minutes) == seconds > expiry_minutes * 60

\* lines 64-91; the message is its fixed text, the formatted minutes left out
is_code_expired(email_date, nowv) ==
    IF email_date.kind = "none"
    THEN [is_expired |-> TRUE, expiry_msg |-> MSG_UNKNOWN]
    ELSE IF Elapsed(time_diff(email_date, nowv), EXPIRY_MINUTES)
    THEN [is_expired |-> TRUE, expiry_msg |-> MSG_EXPIRED]
    ELSE [is_expired |-> FALSE, expiry_msg |-> MSG_VALID]

(***************************************************************************)
(* get_sign_in_code after the locator has returned (lines 314-375).        *)
(* An Optional[str] is a record: NoContent is None, Some(t) the text t.    *)
(* What get_netflix_emails returns is NoResult (None) or a pair.           *)
(***************************************************************************)
NoContent == [some |-> FALSE, text |-> <<>>]
Some(t) == [some |-> TRUE, text |-> t]

NoResult == [kind |-> "none", content |-> NoContent, email_date |-> NoDate]
Pair(content, email_date) ==
    [kind |-> "pair", content |-> content, email_date |-> email_date]

\* _extract_email_content (lines 411-432) on the text/plain payload of a
\* message (NoContent: the message has none): an empty text gives None
extract_email_content(body) ==
    IF body.some /\ body.text # <<>> THEN body ELSE NoContent

\* msg.get("Date", ""), line 205
GetDate(date) == IF date.kind = "absent" THEN EmptyDate ELSE date

\* lines 201-209: what the locator returns for the matching message
LocatorReturn(content, date) ==
    IF content.some /\ content.text # <<>>
    THEN Pair(content, GetDate(date))
    ELSE Pair(content, NoDate)

NoCode == [kind |-> "none", code |-> <<>>, is_expired |-> FALSE, expiry_msg |-> <<>>]

\* lines 314-321: None is returned when there is no result, and when the
\* content is None (content[:500] raises TypeError, caught at line 373)
Unusable(result) == result.kind = "none" \/ ~result.content.some

\* line 324
EmailDateOf(result) ==
    IF result.email_date.kind \in {"none", "empty"}
    THEN NoDate
    ELSE parse_email_date(result.email_date)

ReturnCode_mut(found_code, email_date, nowv) ==
    IF found_code # <<>> /\ email_date.kind # "none"
    THEN LET v == is_code_expired(email_date, nowv)
         IN [kind |-> "tuple", code |-> found_code,
             is_expired |-> v.is_expired, expiry_msg |-> v.expiry_msg]
    ELSE NoCode

\* lines 365-371
ReturnCode(found_code, email_date, nowv) ==
    IF found_code # <<>>
    THEN LET v == is_code_expired(email_date, nowv)
         IN [kind |-> "tuple", code |-> found_code,
             is_expired |-> v.is_expired, expiry_msg |-> v.expiry_msg]
    ELSE NoCode

\* get_sign_in_code, one step per part of its body
XpIdle == [pc |-> "off", date |-> NoDate, result |-> NoResult, email_date |-> NoDate,
           found_code |-> <<>>, pattern_used |-> "", tried |-> 0, ret |-> NoCode]

\* lines 314-324
XpUnpack ==
    /\ xp.pc = "located"
    /\ IF Unusable(xp.result)
       THEN xp' = [xp EXCEPT !.pc = "returned", !.ret = NoCode]
       ELSE xp' = [xp EXCEPT !.pc = "extract", !.email_date = EmailDateOf(xp.result)]
    /\ UNCHANGED <<boot, now, user_request_times, admitted, lastcall, mailbox, inv, loop, faults, rs>>

\* lines 326-363
XpExtract ==
    /\ xp.pc = "extract"
    /\ LET e == ExtractCode(xp.result.content.text)
       IN xp' = [xp EXCEPT !.pc = "expiry", !.found_code = e.found_code,
                           !.pattern_used = e.pattern_used, !.tried = e.tried]
    /\ UNCHANGED <<boot, now, user_request_times, admitted, lastcall, mailbox, inv, loop, faults, rs>>

\* lines 365-371
XpReturn ==
    /\ xp.pc = "expiry"
    /\ xp' = [xp EXCEPT !.pc = "returned",
                        !.ret = ReturnCode(xp.found_code, xp.email_date, now)]
    /\ UNCHANGED <<boot, now, user_request_times, admitted, lastcall, mailbox, inv, loop, faults, rs>>

NextXp == XpUnpack \/ XpExtract \/ XpReturn

(***************************************************************************)
(* The texts the extraction is run on: up to MaxTokens pieces in a row.    *)
(***************************************************************************)
MaxTokens == 3

Tokens == {
    <<"Y","o","u","r"," ","s","i","g","n","-","i","n"," ","c","o","d","e"," ","i","s">>,
    ANCHOR_VN_LONG \o <<"\n">>,
    <<"\n">>, <<" ">>, <<"x">>, <<"_">>,
    <<"1","2","3","4","5","6">>, <<"9","8">> }

RECURSIVE TokenSeqs(_)
TokenSeqs(n) ==
    IF n = 0 THEN {<<>>}
    ELSE TokenSeqs(n - 1) \cup
         {ts \o <<t>> : ts \in {x \in TokenSeqs(n - 1) : Len(x) = n - 1}, t \in Tokens}

ExtractBodies == {Concat(ts) : ts \in TokenSeqs(MaxTokens)}

\* a date header well inside the expiry window
FreshDate == Rfc2822(0, TRUE, 0)

(***************************************************************************)
(* The rate limiter: is_rate_limited (lines 115-138) on the global map     *)
(* user_request_times (line 35).  A user without an entry has the empty    *)
(* list, which is what line 120 creates.                                   *)
(***************************************************************************)
RATE_LIMIT_WINDOW == 60
RATE_LIMIT_MAX_REQUESTS == 5

Users == {1, 2}
Commands == {"signin", "verify"}

\* lines 124-128: the requests still inside the window
InWindow(current_time, req_time) == current_time - req_time < RATE_LIMIT_WINDOW
Pruned(times, current_time) ==
    SelectSeq(times, LAMBDA req_time : InWindow(current_time, req_time))

\* line 131
AtLimit_mut(count) == count > RATE_LIMIT_MAX_REQUESTS
AtLimit(count) == count >= RATE_LIMIT_MAX_REQUESTS

\* the value is_rate_limited returns
Limited(times, current_time) == AtLimit(Len(Pruned(times, current_time)))

\* the user's list when is_rate_limited returns (lines 135, 137)
WindowAfter_mut(times, current_time) ==
    Append(Pruned(times, current_time), current_time)
WindowAfter(times, current_time) ==
    IF Limited(times, current_time)
    THEN Pruned(times, current_time)
    ELSE Append(Pruned(times, current_time), current_time)

\* history: who called last, and whether that user's call right before it
\* had been rejected
NoCall == [user |-> 0, cmd |-> "", limited |-> FALSE, retried |-> FALSE]

\* is_rate_limited(u) as signin (line 529) and verify (line 571) call it:
\* there is no await inside it, so it runs to its end in one step of the loop
RateLimitedCall(u, cmd) ==
    /\ user_request_times' =
           [user_request_times EXCEPT ![u] = WindowAfter(@, now)]
    /\ admitted' = IF Limited(user_request_times[u], now)
                   THEN admitted
                   ELSE [admitted EXCEPT ![u] = Append(@, now)]
    /\ lastcall' = [user |-> u, cmd |-> cmd,
                    limited |-> Limited(user_request_times[u], now),
                    retried |-> lastcall.user = u /\ lastcall.limited]

(***************************************************************************)
(* The limiter alone, with the clock: commands arrive and time passes.     *)
(***************************************************************************)
TickStep == 20
MaxTime == 80
MaxAdmitted == 7

AdmittedTotal ==
    LET RECURSIVE Sum(_)
        Sum(U) == IF U = {} THEN 0
                  ELSE LET u == CHOOSE x \in U : TRUE
                       IN Len(admitted[u]) + Sum(U \ {u})
    IN Sum(Users)

\* time.time() moves on between two commands
Tick ==
    /\ now + TickStep <= MaxTime
    /\ now' = now + TickStep
    /\ UNCHANGED <<boot, xp, user_request_times, admitted, lastcall, mailbox, inv, loop, faults, rs>>

\* a signin or verify command of user u reaches its rate-limit check
Command(u, cmd) ==
    /\ AdmittedTotal < MaxAdmitted
    /\ RateLimitedCall(u, cmd)
    /\ UNCHANGED <<boot, xp, now, mailbox, inv, loop, faults, rs>>

NextRate == Tick \/ \E u \in Users, cmd \in Commands : Command(u, cmd)

(***************************************************************************)
(* The commands.  Each invocation of signin or verify is a task of the     *)
(* event loop.  A task runs alone from one await that really suspends to   *)
(* the next: loop names the task that is running, 0 when the loop is free. *)
(* The only awaits that suspend are ctx.send(...) (and the HTTP request of *)
(* access_verify_link): the imaplib calls of lines 146-190 are plain       *)
(* blocking calls, and awaiting a coroutine that does not itself suspend   *)
(* does not give the loop back.  The mailbox phase is written as one       *)
(* action per imaplib call, all taken while the task holds the loop.       *)
(*                                                                         *)
(* A message of the mailbox is a record: subject is the subject as         *)
(* decode_email_subject returns it, body the text/plain payload, date the  *)
(* Date header.  Its id is its position, lowest = oldest.                  *)
(***************************************************************************)
Slots == {1, 2}

SIGNIN_SUBJECT == <<"M","a_tilde"," ","d_stroke","a_breve","n","g"," ","n","h","a_circumflex_dot","p">>
VERIFY_SUBJECT == <<"t","e","m","p","o","r","a","r","y"," ","a","c","c","e","s","s"," ","c","o","d","e">>
VERIFY_PREFIX == <<"h","t","t","p","s",":","/","/","w","w","w",".","n","e","t","f","l","i","x",".","c","o","m","/","a","c","c","o","u","n","t","/","t","r","a","v","e","l","/","v","e","r","i","f","y">>

\* line 199: subject.lower() in email_subject.lower()
SubjectMatches_mut(subject, email_subject) == Contains(email_subject, subject)
SubjectMatches(subject, email_subject) ==
    Contains(Lower(email_subject), Lower(subject))

\* the ids a SUBJECT search of the server returns (RFC 3501: the messages
\* whose subject contains the text, letter case ignored), oldest first
ScopedIds(box, subject) ==
    SelectSeq([k \in 1..Len(box) |-> k],
              LAMBDA k : Contains(Lower(box[k].subject), Lower(subject)))
\* the ids of the sender-only search of line 179
BroadIds(box) == [k \in 1..Len(box) |-> k]

\* reversed(mail_ids), line 188
Reversed(ids) == [k \in 1..Len(ids) |-> ids[Len(ids) + 1 - k]]

NoLink == [some |-> FALSE, text |-> <<>>]

\* VERIFY_LINK_REGEX.search(text).group(1), lines 37-39 and 397-399: the
\* leftmost "[" + prefix, up to the first "]" after it
ExtractVerifyLink(text) ==
    LET starts == {p \in 1..Len(text) :
                      /\ text[p] = "["
                      /\ StartsWithAt(text, p + 1, VERIFY_PREFIX)
                      /\ \E q \in (p + 1 + Len(VERIFY_PREFIX))..Len(text) : text[q] = "]"}
    IN IF starts = {} THEN NoLink
       ELSE LET p == CHOOSE x \in starts : \A y \in starts : x <= y
                ends == {q \in (p + 1 + Len(VERIFY_PREFIX))..Len(text) : text[q] = "]"}
                q == CHOOSE x \in ends : \A y \in ends : x <= y
            IN Some(SubSeq(text, p + 1, q - 1))

\* _get_verify_link_async, lines 391-408: content is what get_netflix_emails
\* returned, None or the pair (content, email_date).  A pair is never falsy,
\* and VERIFY_LINK_REGEX.search(pair) raises TypeError (expected string or
\* bytes-like object), which line 406 catches: the result is None.
VerifyLinkOf(result) ==
    IF result.kind = "none" THEN NoLink      \* lines 393-395
    ELSE NoLink                             \* lines 397, 406-408

InvIdle ==
    [pc |-> "idle", cmd |-> "", user |-> 0, limited |-> FALSE,
     sent |-> <<>>, send_faults |-> 0,
     subject |-> <<>>, mail |-> "None", exc |-> FALSE, ids |-> <<>>,
     result |-> NoResult, ret |-> NoCode, link |-> NoLink, reply |-> "",
     opened |-> 0, closed |-> FALSE, logged_out |-> FALSE, cleanup_raised |-> FALSE,
     searched |-> FALSE, cands |-> <<>>, failed |-> {}, found |-> 0,
     fetched |-> <<>>, scoped |-> "", fallback |-> FALSE]

\* the calls to the outside (IMAP server, Discord) fail at most MaxFaults
\* times in a run
MaxFaults == 2
Outcomes == {"OK", "NO", "raise"}
Fault(outcome) ==
    /\ outcome # "OK" => faults < MaxFaults
    /\ faults' = IF outcome = "OK" THEN faults ELSE faults + 1

unchangedRest == <<boot, xp, now, mailbox, rs>>
unchangedRate == <<user_request_times, admitted, lastcall>>

\* what is left of an invocation once get_netflix_emails has returned (its
\* locals are gone) and once the handler has sent its reply
LeaveLocator(r) ==
    [r EXCEPT !.mail = "None", !.exc = FALSE, !.ids = <<>>, !.subject = <<>>,
              !.opened = 0, !.closed = FALSE, !.logged_out = FALSE,
              !.cleanup_raised = FALSE, !.searched = FALSE, !.cands = <<>>,
              !.failed = {}, !.found = 0, !.fetched = <<>>, !.scoped = "",
              !.fallback = FALSE]
LeaveHandler(r) ==
    [r EXCEPT !.result = NoResult, !.ret = NoCode, !.link = NoLink, !.reply = ""]

\* lines 517-534 (signin) and 560-576 (verify) up to their first await: the
\* rate-limit check, then ctx.send of the rejection or of the "Searching" note.
\* The slots are numbered in the order the commands arrive
AfterRateCheck_mut(limited) == "send_searching"
AfterRateCheck(limited) == IF limited THEN "send_limit" ELSE "send_searching"

Dispatch(i, cmd, u) ==
    /\ loop = 0
    /\ inv[i].pc = "idle"
    /\ \A j \in Slots : j < i => inv[j].pc # "idle"
    /\ RateLimitedCall(u, cmd)
    /\ inv' = [inv EXCEPT ![i] =
          [@ EXCEPT !.cmd = cmd, !.user = u,
                    !.limited = Limited(user_request_times[u], now),
                    !.pc = AfterRateCheck(Limited(user_request_times[u], now))]]
    /\ UNCHANGED <<loop, unchangedRest>>
    /\ UNCHANGED faults

Signin(i, u) == Dispatch(i, "signin", u)
Verify(i, u) == Dispatch(i, "verify", u)

\* await ctx.send(...) of lines 531/573 returns: the handler returns
SendLimitDone(i) ==
    /\ loop = 0
    /\ inv[i].pc = "send_limit"
    /\ inv' = [inv EXCEPT ![i] = [@ EXCEPT !.sent = Append(@, "rate_limit"),
                                           !.pc = "done"]]
    /\ UNCHANGED <<loop, unchangedRest, unchangedRate>>
    /\ UNCHANGED faults

\* await ctx.send(...) of lines 534/576 returns: the handler goes on into
\* get_sign_in_code / access_verify_link and down to get_imap_connection
\* without giving the loop back
SendSearchingDone(i) ==
    /\ loop = 0
    /\ inv[i].pc = "send_searching"
    /\ inv' = [inv EXCEPT ![i] =
          [@ EXCEPT !.sent = Append(@, "searching"),
                    !.subject = IF inv[i].cmd = "signin"
                                THEN SIGNIN_SUBJECT       \* line 312
                                ELSE VERIFY_SUBJECT,      \* line 381
                    !.pc = "connect"]]
    /\ loop' = i
    /\ UNCHANGED <<unchangedRest, unchangedRate>>
    /\ UNCHANGED faults

\* a ctx.send inside the try of the handler raises (discord.HTTPException):
\* nothing is delivered, the except of lines 554-556 / 591-593 sends the
\* generic error
SendRaises(i) ==
    /\ loop = 0
    /\ inv[i].pc \in {"send_limit", "send_searching", "send_reply"}
    /\ inv' = [inv EXCEPT ![i] =
          [LeaveHandler(@) EXCEPT !.send_faults = @ + 1, !.pc = "send_error"]]
    /\ UNCHANGED <<loop, unchangedRest, unchangedRate>>
    /\ Fault("raise")

\* await ctx.send(...) of lines 556/593 returns
SendErrorDone(i) ==
    /\ loop = 0
    /\ inv[i].pc = "send_error"
    /\ inv' = [inv EXCEPT ![i] = [@ EXCEPT !.sent = Append(@, "error"),
                                           !.pc = "done"]]
    /\ UNCHANGED <<loop, unchangedRest, unchangedRate>>
    /\ UNCHANGED faults

\* the ctx.send of the except branch raises too: the exception leaves the
\* handler and on_command_error (lines 596-603) sends its own message
SendErrorRaises(i) ==
    /\ loop = 0
    /\ inv[i].pc = "send_error"
    /\ inv' = [inv EXCEPT ![i] = [@ EXCEPT !.send_faults = @ + 1,
                                           !.pc = "send_command_error"]]
    /\ UNCHANGED <<loop, unchangedRest, unchangedRate>>
    /\ Fault("raise")

\* line 603 returns, or raises (discord.py logs what an event handler raises)
CommandErrorDone(i, ok) ==
    /\ loop = 0
    /\ inv[i].pc = "send_command_error"
    /\ inv' = [inv EXCEPT ![i] =
          [@ EXCEPT !.sent = IF ok THEN Append(@, "command_error") ELSE @,
                    !.send_faults = IF ok THEN @ ELSE @ + 1,
                    !.pc = "done"]]
    /\ UNCHANGED <<loop, unchangedRest, unchangedRate>>
    /\ Fault(IF ok THEN "OK" ELSE "raise")


(***************************************************************************)
(* The Link Resolver: access_verify_link, lines 435-468, and               *)
(* _extract_challenge_code, lines 471-494.  The value get_verify_link      *)
(* returned is the input of the call.                                      *)
(***************************************************************************)
NoChallenge == [some |-> FALSE, text |-> <<>>]
RsIdle ==
    [pc |-> "off", link |-> NoLink, gets |-> <<>>, status |-> 0,
     fault |-> "", html |-> [parses |-> TRUE, elems |-> <<>>], ret |-> NoChallenge]

\* str.strip(): the whitespace at both ends goes, the rest stays
RECURSIVE LStrip(_)
LStrip(s) == IF s # <<>> /\ IsSpace(Head(s)) THEN LStrip(Tail(s)) ELSE s
RECURSIVE RStrip(_)
RStrip(s) ==
    IF s # <<>> /\ IsSpace(s[Len(s)]) THEN RStrip(SubSeq(s, 1, Len(s) - 1)) ELSE s
Strip(s) == RStrip(LStrip(s))

\* Tag.get_text(strip=True), line 481: every string of the element is
\* stripped, the empty ones are dropped, the others are joined with ""
get_text(strings) == Concat([k \in 1..Len(strings) |-> Strip(strings[k])])

\* soup.find("div", class_="challenge-code"), line 478: the first element in
\* document order with that tag and that class among its classes, 0 for None
find(elems, tag, class) ==
    LET hits == {k \in 1..Len(elems) : elems[k].tag = tag /\ class \in elems[k].class}
    IN IF hits = {} THEN 0 ELSE CHOOSE k \in hits : \A j \in hits : k <= j

\* _extract_challenge_code, lines 471-494; a document the parser (or the
\* import of bs4) raises on gives None by lines 491-493
ExtractChallengeCode(html) ==
    IF ~html.parses THEN NoChallenge
    ELSE LET div == find(html.elems, "div", "challenge-code")
         IN IF div = 0 THEN NoChallenge                       \* lines 486-488
            ELSE LET code == get_text(html.elems[div].strings)
                 IN IF code # <<>> THEN Some(code)            \* lines 482-484
                    ELSE NoChallenge                          \* lines 485, 488

\* the elements the pages served here are made of
Elements ==
    { [tag |-> "div", class |-> {"challenge-code"},
       strings |-> << <<" ", "1", "2", "3", "4", "\n">> >>],
      [tag |-> "div", class |-> {"challenge-code", "big"},
       strings |-> << <<"\n", " ">>, <<"1", "2", " ">>, <<" ", "3", " ", "4">> >>],
      [tag |-> "div", class |-> {"challenge-code"}, strings |-> << <<" ", "\n">> >>],
      [tag |-> "div", class |-> {"challenge-code"}, strings |-> <<>>],
      [tag |-> "span", class |-> {"challenge-code"}, strings |-> << <<"9">> >>],
      [tag |-> "div", class |-> {"code"}, strings |-> << <<"7">> >>] }
MaxElems == 2
RECURSIVE ElemSeqs(_)
ElemSeqs(n) ==
    IF n = 0 THEN {<<>>}
    ELSE LET shorter == ElemSeqs(n - 1)
         IN shorter \cup {Append(s, e) : s \in {t \in shorter : Len(t) = n - 1},
                                         e \in Elements}
Pages ==
    {[parses |-> TRUE, elems |-> es] : es \in ElemSeqs(MaxElems)}
        \cup {[parses |-> FALSE, elems |-> <<>>]}
\* response.status, line 446
Statuses == {200, 204, 302, 404, 500}

\* lines 439-442 and 446: no link, no request; otherwise session.get(link)
ResolverStart_mut ==
    /\ rs.pc = "start"
    /\ rs' = [rs EXCEPT !.gets = Append(@, rs.link.text), !.pc = "get"]
    /\ UNCHANGED <<boot, xp, now, user_request_times, admitted, lastcall, mailbox, inv, loop, faults>>
ResolverStart ==
    /\ rs.pc = "start"
    /\ rs' = IF ~rs.link.some
             THEN [rs EXCEPT !.ret = NoChallenge, !.pc = "returned"]
             ELSE [rs EXCEPT !.gets = Append(@, rs.link.text), !.pc = "get"]
    /\ UNCHANGED <<boot, xp, now, user_request_times, admitted, lastcall, mailbox, inv, loop, faults>>

\* lines 446-460: the response arrives; any status but 200 returns None
ResolverResponse_mut ==
    /\ rs.pc = "get"
    /\ \E st \in Statuses : rs' = [rs EXCEPT !.status = st, !.pc = "text"]
    /\ UNCHANGED <<boot, xp, now, user_request_times, admitted, lastcall, mailbox, inv, loop, faults>>
ResolverResponse ==
    /\ rs.pc = "get"
    /\ \E st \in Statuses :
          rs' = [rs EXCEPT !.status = st,
                           !.ret = NoChallenge,
                           !.pc = IF st = 200 THEN "text" ELSE "returned"]
    /\ UNCHANGED <<boot, xp, now, user_request_times, admitted, lastcall, mailbox, inv, loop, faults>>

\* lines 449-456: the body is read and searched for the code
ResolverBody ==
    /\ rs.pc = "text"
    /\ \E page \in Pages :
          rs' = [rs EXCEPT !.html = page,
                           !.ret = ExtractChallengeCode(page),
                           !.pc = "returned"]
    /\ UNCHANGED <<boot, xp, now, user_request_times, admitted, lastcall, mailbox, inv, loop, faults>>

\* lines 445 and 463-465: the 30 seconds of ClientTimeout(total=30) run out
\* while the request or the reading of the body is pending
ResolverTimeout ==
    /\ rs.pc \in {"get", "text"}
    /\ rs' = [rs EXCEPT !.fault = "timeout", !.ret = NoChallenge, !.pc = "returned"]
    /\ UNCHANGED <<boot, xp, now, user_request_times, admitted, lastcall, mailbox, inv, loop, faults>>

\* lines 466-468: any other exception of the request or of response.text()
ResolverRaises ==
    /\ rs.pc \in {"get", "text"}
    /\ rs' = [rs EXCEPT !.fault = "error", !.ret = NoChallenge, !.pc = "returned"]
    /\ UNCHANGED <<boot, xp, now, user_request_times, admitted, lastcall, mailbox, inv, loop, faults>>

(***************************************************************************)
(* Initial values of the parts a specification does not use.               *)
(***************************************************************************)
BootOff == boot = BootIdle
XpOff == xp = XpIdle
RateOff ==
    /\ user_request_times = [u \in Users |-> <<>>]
    /\ admitted = [u \in Users |-> <<>>]
    /\ lastcall = NoCall
ResolverOff == rs = RsIdle
MainOff ==
    /\ mailbox = <<>> /\ inv = [i \in Slots |-> InvIdle] /\ loop = 0 /\ faults = 0
    /\ ResolverOff

\* one step of task i while it holds the loop: a call with that outcome
Step(i, pc, outcome, next) ==
    /\ loop = i
    /\ inv[i].pc = pc
    /\ Fault(outcome)
    /\ inv' = [inv EXCEPT ![i] = next]
    /\ UNCHANGED <<loop, unchangedRest, unchangedRate>>

Connect_mut(i, outcome) ==
    /\ outcome \in {"OK", "raise"}
    /\ Step(i, "connect", outcome,
            IF outcome = "OK"
            THEN [inv[i] EXCEPT !.mail = "NONAUTH", !.opened = @ + 1, !.pc = "login"]
            ELSE [inv[i] EXCEPT !.exc = TRUE, !.pc = "connect"])

\* line 146, mail = imaplib.IMAP4_SSL(SERVER).  When it raises, mail is still
\* None: lines 152-156 have nothing to release and get_netflix_emails returns
\* None at line 218
Connect(i, outcome) ==
    /\ outcome \in {"OK", "raise"}
    /\ Step(i, "connect", outcome,
            IF outcome = "OK"
            THEN [inv[i] EXCEPT !.mail = "NONAUTH", !.opened = @ + 1, !.pc = "login"]
            ELSE [inv[i] EXCEPT !.result = NoResult, !.pc = "located"])

\* line 148, mail.login(EMAIL, PASSWORD), then the yield of line 151
Login(i, outcome) ==
    /\ outcome \in {"OK", "raise"}
    /\ Step(i, "login", outcome,
            IF outcome = "OK"
            THEN [inv[i] EXCEPT !.mail = "AUTH", !.pc = "select"]
            ELSE [inv[i] EXCEPT !.exc = TRUE, !.pc = "close"])

\* line 168, mail.select("Inbox"); its status is not looked at
Select(i, outcome) ==
    Step(i, "select", outcome,
         CASE outcome = "OK" -> [inv[i] EXCEPT !.mail = "SELECTED", !.pc = "search"]
           [] outcome = "NO" -> [inv[i] EXCEPT !.pc = "search"]
           [] OTHER -> [inv[i] EXCEPT !.exc = TRUE, !.pc = "close"])

\* lines 181-185 on a search that returned: None unless the status is OK and
\* there are ids
AfterSearch(r, status, ids) ==
    IF status # "OK" \/ ids = <<>>
    THEN [r EXCEPT !.searched = (status = "OK"), !.result = NoResult, !.pc = "close"]
    ELSE [r EXCEPT !.searched = TRUE, !.cands = ids, !.ids = Reversed(ids),
                   !.pc = "scan"]

\* line 175, mail.search("UTF-8", ...).  imaplib raises when the mailbox is
\* not selected, and when the criteria do not encode as ASCII (it builds the
\* command with bytes(arg, "ascii")), which is the case of the sign-in
\* subject; whatever is raised sends the code to the search of line 179
SearchRaises(r) == r.mail # "SELECTED" \/ ~IsAscii(r.subject)
Search(i, outcome) ==
    Step(i, "search", IF SearchRaises(inv[i]) THEN "OK" ELSE outcome,
         IF SearchRaises(inv[i]) \/ outcome = "raise"
         THEN [inv[i] EXCEPT !.scoped = "raise", !.fallback = TRUE, !.pc = "fallback"]
         ELSE AfterSearch([inv[i] EXCEPT !.scoped = outcome], outcome,
                          ScopedIds(mailbox, inv[i].subject)))

\* line 179, mail.search(None, ...); what it raises leaves the with block
SearchFallback(i, outcome) ==
    Step(i, "fallback", IF inv[i].mail # "SELECTED" THEN "OK" ELSE outcome,
         IF inv[i].mail # "SELECTED" \/ outcome = "raise"
         THEN [inv[i] EXCEPT !.exc = TRUE, !.pc = "close"]
         ELSE AfterSearch(inv[i], outcome, BroadIds(mailbox)))

Fetch_mut(i, outcome) ==
    /\ inv[i].ids # <<>>
    /\ LET id == Head(inv[i].ids)
           msg == mailbox[id]
           r == [inv[i] EXCEPT !.fetched = Append(@, id)]
       IN Step(i, "scan", outcome,
               CASE outcome # "OK" ->
                      [r EXCEPT !.failed = @ \cup {id}, !.exc = TRUE, !.pc = "close"]
                 [] outcome = "OK" /\ SubjectMatches(r.subject, msg.subject) ->
                      [r EXCEPT !.found = id,
                                !.result = LocatorReturn(extract_email_content(msg.body),
                                                         msg.date),
                                !.pc = "close"]
                 [] OTHER -> [r EXCEPT !.ids = Tail(@)])

Fetch_mut2(i, outcome) ==
    /\ inv[i].ids # <<>>
    /\ LET id == Head(inv[i].ids)
           msg == mailbox[id]
           r == [inv[i] EXCEPT !.fetched = Append(@, id)]
       IN Step(i, "scan", outcome,
               CASE outcome # "OK" ->
                      [r EXCEPT !.failed = @ \cup {id}, !.ids = Tail(@)]
                 [] /\ outcome = "OK" /\ SubjectMatches(r.subject, msg.subject)
                    /\ extract_email_content(msg.body).some ->
                      [r EXCEPT !.found = id,
                                !.result = LocatorReturn(extract_email_content(msg.body),
                                                         msg.date),
                                !.pc = "close"]
                 [] OTHER -> [r EXCEPT !.ids = Tail(@)])

\* lines 188-211, one round of the loop: the fetch of the newest id left; a
\* status other than OK and anything raised (by the fetch, by parsing or
\* decoding the message) goes on to the next id
Fetch(i, outcome) ==
    /\ inv[i].ids # <<>>
    /\ LET id == Head(inv[i].ids)
           msg == mailbox[id]
           r == [inv[i] EXCEPT !.fetched = Append(@, id)]
       IN Step(i, "scan", outcome,
               CASE outcome # "OK" ->
                      [r EXCEPT !.failed = @ \cup {id}, !.ids = Tail(@)]
                 [] outcome = "OK" /\ SubjectMatches(r.subject, msg.subject) ->
                      [r EXCEPT !.found = id,
                                !.result = LocatorReturn(extract_email_content(msg.body),
                                                         msg.date),
                                !.pc = "close"]
                 [] OTHER -> [r EXCEPT !.ids = Tail(@)])

\* lines 213-214: no id is left
ScanEnd(i) ==
    /\ inv[i].ids = <<>>
    /\ Step(i, "scan", "OK", [inv[i] EXCEPT !.result = NoResult, !.pc = "close"])

\* lines 155-158, mail.close().  imaplib allows CLOSE only on a selected
\* mailbox and raises otherwise; on a selected one it can fail like any
\* command.  What it raises is caught at line 160, after which line 159 is
\* not run
Close(i, outcome) ==
    /\ outcome \in {"OK", "raise"}
    /\ Step(i, "close", IF inv[i].mail # "SELECTED" THEN "OK" ELSE outcome,
            IF inv[i].mail = "SELECTED" /\ outcome = "OK"
            THEN [inv[i] EXCEPT !.mail = "AUTH", !.closed = TRUE, !.pc = "logout"]
            ELSE [inv[i] EXCEPT !.cleanup_raised = TRUE, !.pc = "exit"])

Logout_mut(i, outcome) ==
    /\ outcome \in {"OK", "raise"}
    /\ Step(i, "logout", outcome,
            [inv[i] EXCEPT !.mail = "LOGOUT", !.logged_out = TRUE, !.pc = "search"])

\* line 159, mail.logout()
Logout(i, outcome) ==
    /\ outcome \in {"OK", "raise"}
    /\ Step(i, "logout", outcome,
            IF outcome = "OK"
            THEN [inv[i] EXCEPT !.mail = "LOGOUT", !.logged_out = TRUE, !.pc = "exit"]
            ELSE [inv[i] EXCEPT !.cleanup_raised = TRUE, !.pc = "exit"])

ExitSession_mut(i) ==
    /\ loop = i
    /\ inv[i].pc = "exit"
    /\ inv' = [inv EXCEPT ![i] =
          IF inv[i].exc
          THEN [LeaveLocator(@) EXCEPT !.pc = "send_error"]
          ELSE [@ EXCEPT !.pc = "located"]]
    /\ loop' = IF inv[i].exc THEN 0 ELSE loop
    /\ UNCHANGED <<faults, unchangedRest, unchangedRate>>

\* the with block is left: what was raised inside it (re-raised at line 154)
\* is caught at line 216 and get_netflix_emails returns None
ExitSession(i) ==
    Step(i, "exit", "OK",
         IF inv[i].exc
         THEN [inv[i] EXCEPT !.exc = FALSE, !.result = NoResult, !.pc = "located"]
         ELSE [inv[i] EXCEPT !.pc = "located"])

VerifyMail ==
    [subject |-> <<"Y","o","u","r"," ","t","e","m","p","o","r","a","r","y"," ","a","c","c","e","s","s"," ","c","o","d","e">>,
     body |-> Some(<<"G","e","t"," ","c","o","d","e"," ","[","h","t","t","p","s",":","/","/","w","w","w",".","n","e","t","f","l","i","x",".","c","o","m","/","a","c","c","o","u","n","t","/","t","r","a","v","e","l","/","v","e","r","i","f","y","?","n","f","t","o","k","e","n","=","A","b","1","]"," ","n","o","w">>),
     date |-> FreshDate]
VerifyMailNoText ==
    [subject |-> <<"Y","O","U","R"," ","T","E","M","P","O","R","A","R","Y"," ","A","C","C","E","S","S"," ","C","O","D","E">>,
     body |-> NoContent, date |-> FreshDate]
SigninMail ==
    [subject |-> SIGNIN_SUBJECT \o <<" ", "c", "u_hook", "a">>,
     body |-> Some(<<"S","i","g","n","-","i","n"," ","c","o","d","e",":"," ","1","2","3","4">>),
     date |-> AbsentDate]
SigninMailNoText ==
    [subject |-> SIGNIN_SUBJECT, body |-> NoContent, date |-> FreshDate]
OtherMail ==
    [subject |-> <<"W","e","l","c","o","m","e"," ","b","a","c","k">>, body |-> Some(<<"x">>), date |-> FreshDate]

MainMessages == {VerifyMail, VerifyMailNoText, SigninMail, SigninMailNoText, OtherMail}

\* lines 326-363 on the texts of these messages, computed once
BodyCodes == [t \in {m.body.text : m \in MainMessages} |-> ExtractCode(t)]
ExtractCodeOf(text) ==
    IF text \in DOMAIN BodyCodes THEN BodyCodes[text] ELSE ExtractCode(text)

\* get_sign_in_code, lines 307-375, on what get_netflix_emails returned
SignInCodeOf(result, nowv) ==
    IF Unusable(result) THEN NoCode
    ELSE ReturnCode(ExtractCodeOf(result.content.text).found_code,
                    EmailDateOf(result), nowv)

\* the reply of lines 538-552 (signin)
SigninReply(ret) ==
    IF ret.kind = "tuple"
    THEN IF ret.is_expired THEN "code_expired" ELSE "code"
    ELSE "no_code"

\* get_netflix_emails has returned.  signin: the rest of get_sign_in_code and
\* lines 538-552.  verify: _get_verify_link_async, get_verify_link, lines
\* 439-441 of access_verify_link (no link: no HTTP request) and lines 580-589.
\* The reply is handed to ctx.send, which suspends the task
Located(i) ==
    /\ loop = i
    /\ inv[i].pc = "located"
    /\ inv' = [inv EXCEPT ![i] =
          IF inv[i].cmd = "signin"
          THEN LET ret == SignInCodeOf(inv[i].result, now)
               IN [LeaveLocator(@) EXCEPT !.ret = ret,
                                          !.reply = SigninReply(ret),
                                          !.pc = "send_reply"]
          ELSE [LeaveLocator(@) EXCEPT
                         !.link = VerifyLinkOf(inv[i].result),
                         !.reply = "no_challenge",
                         !.pc = "send_reply"]]
    /\ loop' = 0
    /\ UNCHANGED <<unchangedRest, unchangedRate>>
    /\ UNCHANGED faults

\* the ctx.send of the reply returns
SendReplyDone(i) ==
    /\ loop = 0
    /\ inv[i].pc = "send_reply"
    /\ inv' = [inv EXCEPT ![i] =
          [LeaveHandler(@) EXCEPT !.sent = Append(@, inv[i].reply), !.pc = "done"]]
    /\ UNCHANGED <<loop, unchangedRest, unchangedRate>>
    /\ UNCHANGED faults

\* get_netflix_emails, from the with statement of line 167 to its return
Locator(i) ==
    \/ \E o \in Outcomes : Connect(i, o) \/ Login(i, o) \/ Select(i, o)
    \/ \E o \in Outcomes : Search(i, o) \/ SearchFallback(i, o)
    \/ \E o \in Outcomes : Fetch(i, o)
    \/ ScanEnd(i)
    \/ \E o \in Outcomes : Close(i, o) \/ Logout(i, o)
    \/ ExitSession(i)

\* the steps of invocation i
Invocation(i) ==
    \/ \E u \in Users : Signin(i, u) \/ Verify(i, u)
    \/ SendLimitDone(i) \/ SendSearchingDone(i) \/ SendRaises(i)
    \/ SendErrorDone(i) \/ SendErrorRaises(i)
    \/ \E ok \in BOOLEAN : CommandErrorDone(i, ok)
    \/ Locator(i)
    \/ Located(i)
    \/ SendReplyDone(i)

Next == \E i \in Slots : Invocation(i)

(***************************************************************************)
(* The mailboxes the commands are run on.                                  *)
(***************************************************************************)
MaxMails == 2

RECURSIVE Boxes(_, _)
Boxes(msgs, n) ==
    IF n = 0 THEN {<<>>}
    ELSE Boxes(msgs, n - 1) \cup
         {b \o <<m>> : b \in {x \in Boxes(msgs, n - 1) : Len(x) = n - 1}, m \in msgs}

\* the mailboxes of the two commands together: the newest message is on the
\* right
MainBoxes == {<<SigninMail, VerifyMail>>, <<VerifyMailNoText, SigninMail, OtherMail>>}

\* every user has made no request yet, or four in this very second
InitWindows ==
    \E n \in {0, RATE_LIMIT_MAX_REQUESTS - 1} :
        /\ user_request_times = [u \in Users |-> [k \in 1..n |-> 0]]
        /\ admitted = user_request_times
        /\ lastcall = NoCall

Init ==
    /\ BootOff /\ XpOff /\ ResolverOff /\ now = 0
    /\ InitWindows
    /\ mailbox \in MainBoxes
    /\ inv = [i \in Slots |-> InvIdle]
    /\ loop = 0
    /\ faults = 0

Spec == Init /\ [][Next]_vars

\* one command, of a user who has made no request yet or is at the limit; the
\* event loop runs the task when it is ready, and every call to the mail
\* server and to Discord returns or raises
InitOne ==
    /\ BootOff /\ XpOff /\ ResolverOff /\ now = 0
    /\ \E n \in {0, RATE_LIMIT_MAX_REQUESTS} :
          /\ user_request_times = [u \in Users |-> [k \in 1..n |-> 0]]
          /\ admitted = user_request_times
          /\ lastcall = NoCall
    /\ mailbox \in MainBoxes
    /\ inv = [i \in Slots |-> InvIdle]
    /\ loop = 0
    /\ faults = 0
FairSpec == InitOne /\ [][Invocation(1)]_vars /\ WF_vars(Invocation(1))

\* get_netflix_emails alone: one call, with either subject filter, on every
\* mailbox of up to MaxMails messages
Filters == {SIGNIN_SUBJECT, VERIFY_SUBJECT}
NextLocator == \E i \in Slots : Locator(i)
InitLocator ==
    /\ BootOff /\ XpOff /\ ResolverOff /\ now = 0 /\ RateOff
    /\ mailbox \in Boxes(MainMessages, MaxMails)
    /\ \E f \in Filters :
          inv = [i \in Slots |->
                    IF i = 1
                    THEN [InvIdle EXCEPT !.pc = "connect", !.subject = f, !.user = 1,
                                         !.cmd = IF f = SIGNIN_SUBJECT
                                                 THEN "signin" ELSE "verify"]
                    ELSE InvIdle]
    /\ loop = 1
    /\ faults = 0
SpecLocator == InitLocator /\ [][NextLocator]_vars

\* access_verify_link alone: one call, for every value lines 393-404 can hand
\* back from a text, None included
LinkTexts ==
    { <<"[">> \o VERIFY_PREFIX \o <<"?","n","f","t","o","k","e","n","=","A","b","1","]">>,
      <<"g","o"," ","[">> \o VERIFY_PREFIX \o <<"]"," ","[","x","]">>,
      <<"[">> \o VERIFY_PREFIX \o <<"/","2","]","[">> \o VERIFY_PREFIX \o <<"/","3","]">>,
      VERIFY_PREFIX,
      <<"n","o"," ","l","i","n","k">> }
ResolverLinks == {ExtractVerifyLink(t) : t \in LinkTexts}
NextResolver ==
    \/ ResolverStart \/ ResolverResponse \/ ResolverBody
    \/ ResolverTimeout \/ ResolverRaises
InitResolver ==
    /\ BootOff /\ XpOff /\ now = 0 /\ RateOff
    /\ mailbox = <<>> /\ inv = [i \in Slots |-> InvIdle] /\ loop = 0 /\ faults = 0
    /\ \E l \in ResolverLinks : rs = [RsIdle EXCEPT !.pc = "start", !.link = l]
SpecResolver == InitResolver /\ [][NextResolver]_vars

\* start-up of the process
NextStartup ==
    \/ LoadConfig \/ CheckToken \/ CheckCredentials
    \/ RunBot \/ RunBotFails \/ RunBotReturns
InitStartup == InitBoot /\ XpOff /\ now = 0 /\ RateOff /\ MainOff
SpecStartup == InitStartup /\ [][NextStartup]_vars

\* code extraction over the generated texts
InitExtract ==
    /\ \E b \in ExtractBodies :
          xp = [XpIdle EXCEPT !.pc = "located", !.date = FreshDate,
                              !.result = LocatorReturn(extract_email_content(Some(b)),
                                                       FreshDate)]
    /\ BootOff /\ now = 0 /\ RateOff /\ MainOff
SpecExtract == InitExtract /\ [][NextXp]_vars

\* the limiter
InitRate == BootOff /\ XpOff /\ now = 0 /\ RateOff /\ MainOff
SpecRate == InitRate /\ [][NextRate]_vars

\* expiry: a few texts, every kind of Date header, times around the limit
ExpirySlack == 2
ZoneOffsets == {0, 7 * 3600, -(5 * 3600)}
ElapsedTimes ==
    {0} \cup ((EXPIRY_MINUTES * 60 - ExpirySlack)..(EXPIRY_MINUTES * 60 + ExpirySlack))
MessageDates ==
    {AbsentDate, EmptyDate, GarbageDate}
    \cup {Rfc2822(z - e, TRUE, z) : e \in ElapsedTimes, z \in ZoneOffsets}
    \cup {Rfc2822(0 - e, FALSE, 0) : e \in ElapsedTimes}
ScenarioA == <<"Y","o","u","r"," ","s","i","g","n","-","i","n"," ","c","o","d","e"," ","i","s","\n","1","2","3","4","5","6">>
ExpiryBodies ==
    {NoContent, Some(<<>>), Some(<<"x">>), Some(ScenarioA),
     Some(<<"V","e","r","i","f","i","c","a","t","i","o","n"," ","c","o","d","e",":"," ","9","8","7","6">>)}
InitExpiry ==
    /\ \/ xp = [XpIdle EXCEPT !.pc = "located"]
       \/ \E b \in ExpiryBodies, d \in MessageDates :
             xp = [XpIdle EXCEPT !.pc = "located", !.date = d,
                                 !.result = LocatorReturn(extract_email_content(b), d)]
    /\ BootOff /\ now = 0 /\ RateOff /\ MainOff
SpecExpiry == InitExpiry /\ [][NextXp]_vars

(***************************************************************************)
(* Claims                                                                  *)
(***************************************************************************)

\* C1 (Spec): verify end to end.  When the message get_netflix_emails returned
\* to a verify command (of a user who is not rate limited) has a plain-text
\* body with a bracketed URL of the fixed verification prefix, link extraction
\* finds that URL from the returned value, so that the GET is issued and the
\* reply is the challenge code rather than the "no challenge code" message.
C1_VerifyLinkFound ==
    \A i \in Slots :
        (/\ inv[i].cmd = "verify" /\ ~inv[i].limited
         /\ inv[i].pc = "send_reply"
         /\ inv[i].result.kind = "pair"
         /\ ExtractVerifyLink(inv[i].result.content.text).some)
        => /\ inv[i].link = ExtractVerifyLink(inv[i].result.content.text)
           /\ inv[i].reply # "no_challenge"

\* C2 (SpecLocator): for every connection that get_imap_connection has
\* established, on every exit path, both mail.close() and mail.logout() have
\* been performed by the time the context manager has exited.
C2_SessionReleased ==
    \A i \in Slots :
        inv[i].pc \in {"exit", "located"} /\ inv[i].opened > 0
            => inv[i].closed /\ inv[i].logged_out

\* C3 (SpecRate): a user is admitted at most RATE_LIMIT_MAX_REQUESTS times in
\* any span shorter than RATE_LIMIT_WINDOW seconds, signin and verify counted
\* together: between an admission and the fifth admission after it at least
\* 60 seconds pass, so a sixth call inside 60 seconds is rejected.
C3_AtMostFivePerWindow ==
    \A u \in Users : \A i, j \in DOMAIN admitted[u] :
        j >= i + RATE_LIMIT_MAX_REQUESTS
            => admitted[u][j] - admitted[u][i] >= RATE_LIMIT_WINDOW

\* C3 witness: a user who was admitted five times inside the window is
\* rejected, at a later time than the first admission, and has been admitted
\* a sixth time once the window had passed.
C3_Witness ==
    \E u \in Users :
        /\ lastcall.user = u /\ lastcall.limited
        /\ Len(admitted[u]) > RATE_LIMIT_MAX_REQUESTS
        /\ now > admitted[u][Len(admitted[u]) - RATE_LIMIT_MAX_REQUESTS + 1]

\* the places of a rejected invocation: the send of the rejection, the sends
\* of the except branch and of on_command_error, the end
RejectedPlaces == {"send_limit", "send_error", "send_command_error", "done"}

\* C4 as stated (Spec): for an invocation the rate limiter rejected, the core
\* is never invoked and the only message sent to the user is the rate-limit
\* rejection.
C4_Original ==
    \A i \in Slots : inv[i].limited =>
        /\ inv[i].pc \in RejectedPlaces
        /\ \A k \in DOMAIN inv[i].sent : inv[i].sent[k] = "rate_limit"

\* C4 amended (Spec): for an invocation the rate limiter rejected, the core is
\* never invoked: it never enters the mailbox phase (no session, no search, no
\* fetch) nor link resolution (no GET).  At most one message reaches the user:
\* the rate-limit rejection, unless that very send raised; then it is the
\* generic error message of the except branch, or the message of
\* on_command_error when that send raised too.
C4_RejectedNeverReachesCore ==
    \A i \in Slots : inv[i].limited =>
        /\ inv[i].pc \in RejectedPlaces
        /\ inv[i].opened = 0 /\ inv[i].mail = "None" /\ ~inv[i].searched
        /\ inv[i].failed = {} /\ inv[i].found = 0
        /\ inv[i].result = NoResult /\ inv[i].link = NoLink
        /\ Len(inv[i].sent) <= 1
        /\ inv[i].pc = "done" /\ inv[i].send_faults = 0
              => inv[i].sent = <<"rate_limit">>
        /\ inv[i].sent # <<>> /\ inv[i].send_faults = 1
              => inv[i].sent = <<"error">>
        /\ inv[i].sent # <<>> /\ inv[i].send_faults = 2
              => inv[i].sent = <<"command_error">>

\* C4 witness: a rejected invocation has got its rejection message and is
\* over, after an invocation that was admitted went through the mailbox.
C4_Witness ==
    \E i, j \in Slots :
        /\ inv[i].limited /\ inv[i].pc = "done" /\ inv[i].sent = <<"rate_limit">>
        /\ ~inv[j].limited /\ inv[j].pc = "done" /\ Len(inv[j].sent) = 2

\* the candidates of the scan of invocation i that contain its filter: the
\* places k of the search result whose message was fetched and decoded (a
\* failed fetch is skipped, lines 191-193 and 210-211) and whose decoded
\* subject contains the filter, letter case ignored
MatchingCandidates(i) ==
    {k \in DOMAIN inv[i].cands :
        /\ inv[i].cands[k] \notin inv[i].failed
        /\ Contains(Lower(mailbox[inv[i].cands[k]].subject), Lower(inv[i].subject))}

\* C5 (SpecLocator): for every search result, get_netflix_emails returns a
\* message iff some candidate's decoded subject contains the filter, letter
\* case ignored, and the message returned is the matching candidate closest to
\* the end of the search result (the most recent one).
C5_MostRecentMatch ==
    \A i \in Slots : inv[i].pc = "located" /\ inv[i].searched =>
        LET hits == MatchingCandidates(i)
            last == CHOOSE k \in hits : \A h \in hits : h <= k
            msg == mailbox[inv[i].cands[last]]
        IN /\ (inv[i].result.kind = "pair") <=> (hits # {})
           /\ hits # {} =>
                 /\ inv[i].found = inv[i].cands[last]
                 /\ inv[i].result.content = extract_email_content(msg.body)

\* C5 witness: the search returned several candidates that contain the filter
\* (one of them in another letter case) and the call has returned a message.
C5_Witness ==
    \E i \in Slots :
        /\ inv[i].pc = "located" /\ inv[i].searched
        /\ Cardinality(MatchingCandidates(i)) >= 2
        /\ \E k \in MatchingCandidates(i) :
              ~Contains(mailbox[inv[i].cands[k]].subject, inv[i].subject)
        /\ inv[i].result.kind = "pair"

\* the anchors of SIGN_IN_CODE_REGEX in s that are followed by a digit, with
\* only non-digit characters that satisfy gapOk in between: <<p, q, n>> is an
\* anchor at p, its first digit at q, and the length n of the digit run at q
AnchorRuns(s, gapOk(_)) ==
    LET ls == Lower(s)
        anchors == UNION {{<<p, e>> : e \in AnchorEnds(ls, p)} : p \in 1..Len(s)}
    IN UNION {{<<a[1], q, RunLen(s, q, IsDigit)>> :
                  q \in {q \in a[2]..Len(s) :
                            /\ IsDigit(s[q])
                            /\ \A k \in a[2]..(q - 1) : ~IsDigit(s[k]) /\ gapOk(s[k])}} :
              a \in anchors}

AnyChar(c) == TRUE

\* C6 as stated (SpecExtract): when a tier-1 anchor is followed by a run of 4-8
\* digits with only non-digit characters in between, the next line included,
\* that run is returned and the tier is the main regex.
C6_Original ==
    xp.pc = "returned" /\ xp.result.content.some =>
        LET s == xp.result.content.text
            hits == {h \in AnchorRuns(s, AnyChar) : h[3] >= MinDigits /\ h[3] <= MaxDigits}
        IN hits # {} =>
              /\ xp.pattern_used = "main regex"
              /\ \E h \in hits : xp.ret.code = SubSeq(s, h[2], h[2] + h[3] - 1)

\* C6 amended (SpecExtract): when a tier-1 anchor is followed on its own line
\* (only characters that are neither digits nor newlines in between) by a run
\* of 4-8 digits, the tier is the main regex and the code is the run after the
\* leftmost anchor that is so followed by at least 4 digits (its first 8 when
\* it has more); Scenario A, with the digits on the next line, returns 123456
\* through the simple pattern (tier 3).
C6_SameLineTier1 ==
    xp.pc = "returned" /\ xp.result.content.some =>
        LET s == xp.result.content.text
            hits == {h \in AnchorRuns(s, LAMBDA c : c # "\n") : h[3] >= MinDigits}
            first == CHOOSE h \in hits : \A g \in hits : h[1] <= g[1]
            n == IF first[3] > MaxDigits THEN MaxDigits ELSE first[3]
        IN /\ (\E h \in hits : h[3] <= MaxDigits) =>
                 /\ xp.pattern_used = "main regex"
                 /\ xp.ret.code = SubSeq(s, first[2], first[2] + n - 1)
           /\ s = ScenarioA =>
                 /\ xp.pattern_used = "simple pattern"
                 /\ xp.ret.code = <<"1","2","3","4","5","6">>

\* C6 witness: a text with an anchor and its digits on one line was extracted
\* by the main regex, the anchor not at the start of the text.
C6_Witness ==
    /\ xp.pc = "returned" /\ xp.result.content.some
    /\ xp.pattern_used = "main regex"
    /\ \E h \in AnchorRuns(xp.result.content.text, LAMBDA c : c # "\n") :
          h[1] > 1 /\ h[3] >= MinDigits /\ h[3] <= MaxDigits

\* seconds between the instant a well-formed Date header names (a header
\* without zone read as UTC) and now
HeaderAge(d) == now - (IF d.aware THEN d.wall - d.offset ELSE d.wall)

\* C7 (SpecExpiry): for a well-formed Date header the code is reported expired
\* exactly when more than EXPIRY_MINUTES minutes have passed: at exactly 15
\* minutes it is not expired, one second later it is; a header without a zone
\* counts as UTC.
C7_ExpiryBoundary ==
    xp.pc = "returned" /\ xp.ret.kind = "tuple" /\ xp.date.kind = "rfc2822" =>
        /\ xp.ret.is_expired <=> HeaderAge(xp.date) > EXPIRY_MINUTES * 60
        /\ HeaderAge(xp.date) = EXPIRY_MINUTES * 60 => ~xp.ret.is_expired
        /\ HeaderAge(xp.date) = EXPIRY_MINUTES * 60 + 1 => xp.ret.is_expired

\* C7 witness: a code whose zone-less header is exactly 15 minutes old was
\* returned as not expired.
C7_Witness ==
    /\ xp.pc = "returned" /\ xp.ret.kind = "tuple"
    /\ xp.date.kind = "rfc2822" /\ ~xp.date.aware
    /\ HeaderAge(xp.date) = EXPIRY_MINUTES * 60
    /\ ~xp.ret.is_expired

CodeInMessage ==
    /\ xp.result.kind = "pair" /\ xp.result.content.some
    /\ ExtractCode(xp.result.content.text).found_code # <<>>

\* C8 as stated (SpecExpiry): when the located message holds a code and its
\* Date header is absent, empty or unparsable, the code is returned with
\* is_expired true and a message containing "unknown date".
C8_Original ==
    xp.pc = "returned" /\ CodeInMessage
    /\ xp.date.kind \in {"absent", "empty", "garbage"} =>
        /\ xp.ret.kind = "tuple"
        /\ xp.ret.code = ExtractCode(xp.result.content.text).found_code
        /\ xp.ret.is_expired
        /\ Contains(Lower(xp.ret.expiry_msg), <<"u","n","k","n","o","w","n"," ","d","a","t","e">>)

\* C8 amended (SpecExpiry): in that case the code is returned with is_expired
\* true and the message "Unknown email date".
C8_UnknownEmailDate ==
    xp.pc = "returned" /\ CodeInMessage
    /\ xp.date.kind \in {"absent", "empty", "garbage"} =>
        /\ xp.ret.kind = "tuple"
        /\ xp.ret.code = ExtractCode(xp.result.content.text).found_code
        /\ xp.ret.is_expired
        /\ xp.ret.expiry_msg = <<"U","n","k","n","o","w","n"," ","e","m","a","i","l"," ","d","a","t","e">>

\* C8 witness: a code was returned for a message whose Date header is garbage.
C8_Witness ==
    /\ xp.pc = "returned" /\ CodeInMessage
    /\ xp.date.kind = "garbage"
    /\ xp.ret.kind = "tuple" /\ xp.ret.is_expired

\* C9 as stated (SpecStartup): with the token, EMAIL or PASSWORD missing from
\* the environment, bot.run is never reached and the process exits non-zero.
C9_MissingConfigAborts ==
    (\E n \in {"TOKEN", "EMAIL", "PASSWORD"} : boot.env[n] = None) =>
        /\ ~boot.bot_run
        /\ boot.pc # "validated"
        /\ boot.pc = "exited" => boot.exit_status # 0

\* the mailbox phase of an invocation, from the opening of the session to its
\* release, and the places where an invocation waits for a send to complete
MailboxPhase ==
    {"connect", "login", "select", "search", "fallback", "scan", "close", "logout"}
Suspended ==
    {"send_limit", "send_searching", "send_reply", "send_error", "send_command_error"}

\* the invocation j goes on after its send has completed
Resume(j) ==
    \/ SendLimitDone(j) \/ SendSearchingDone(j) \/ SendReplyDone(j)
    \/ SendErrorDone(j) \/ CommandErrorDone(j, TRUE)

\* C10 (Spec): while one invocation is in its mailbox phase (login, select,
\* search, fetch), another invocation whose send has completed can take its
\* next step: the mailbox operations of one invocation do not block the others.
C10_MailboxPhaseDoesNotBlock ==
    \A i, j \in Slots :
        i # j /\ inv[i].pc \in MailboxPhase /\ inv[j].pc \in Suspended
            => ENABLED Resume(j)

\* the places where select, search or fetch is the next call on the session
SessionUse == {"select", "search", "fallback", "scan"}

\* C11 (Spec): every invocation of the core works on the session it opened
\* itself: the session of an invocation changes only in steps that invocation
\* takes while it runs, an invocation has exactly one open, authenticated and
\* not yet released session whenever select, search or fetch is its next call,
\* and once close or logout has been called on a session no select, search or
\* fetch follows on it, under every interleaving of the commands.
C11_SessionOwnership ==
    [][\A i \in Slots :
          /\ inv'[i].mail # inv[i].mail => loop = i
          /\ inv'[i].pc \in SessionUse =>
                /\ loop' = i
                /\ inv'[i].opened = 1
                /\ inv'[i].mail \in {"AUTH", "SELECTED"}
                /\ ~inv'[i].closed /\ ~inv'[i].logged_out /\ ~inv'[i].cleanup_raised
          /\ (inv[i].closed \/ inv[i].logged_out \/ inv[i].cleanup_raised)
                => inv'[i].pc \notin SessionUse]_vars

\* C11 witness: an invocation scans the mailbox on its own session after
\* another invocation has been through the mailbox and has released its own.
C11_Witness ==
    \E i, j \in Slots :
        /\ i # j
        /\ inv[i].pc = "scan" /\ inv[i].mail = "SELECTED" /\ inv[i].opened = 1
        /\ inv[j].pc \in {"send_reply", "done"} /\ ~inv[j].limited
        /\ inv[j].mail = "None"

\* the replies of a handler whose core has returned, lines 538-552 and 580-589
FinalReplies == {"code", "code_expired", "no_code", "no_challenge"}

\* C12 (FairSpec): no fault of connect, login, select, search or fetch leaves
\* the core: get_netflix_emails returns (None when the fault ended the session
\* before a search returned), the handler's except branch is never entered
\* unless a send raised, and every invocation that passed the rate limit ends,
\* having sent, when no send raised, the searching note and one final reply.
C12_FaultsNeverEscape ==
    /\ [](\A i \in Slots :
            /\ inv[i].pc = "located" => ~inv[i].exc
            /\ inv[i].pc = "located" /\ ~inv[i].searched => inv[i].result = NoResult
            /\ inv[i].send_faults = 0 =>
                  /\ inv[i].pc \notin {"send_error", "send_command_error"}
                  /\ \A k \in DOMAIN inv[i].sent :
                        inv[i].sent[k] \notin {"error", "command_error"}
            /\ inv[i].pc = "done" /\ ~inv[i].limited /\ inv[i].send_faults = 0 =>
                  /\ Len(inv[i].sent) = 2
                  /\ inv[i].sent[1] = "searching"
                  /\ inv[i].sent[2] \in FinalReplies)
    /\ \A i \in Slots : (inv[i].pc = "send_searching") ~> (inv[i].pc = "done")

\* C12 witness: an invocation whose session was ended by a fault (the search
\* never returned) has sent its could-not-retrieve reply and is over.
C12_Witness ==
    \E i \in Slots :
        /\ inv[i].pc = "done" /\ ~inv[i].limited /\ inv[i].send_faults = 0
        /\ faults > 0
        /\ Len(inv[i].sent) = 2 /\ inv[i].sent[2] \in {"no_code", "no_challenge"}

\* t occurs in s as a contiguous piece
OccursIn(s, t) == \E p \in 1..(Len(s) + 1) : StartsWithAt(s, p, t)

\* C13 (SpecExtract): whatever tier produced it, the code get_sign_in_code
\* returns is one string of 4 to 8 decimal digits (taken from the text, and
\* the one the tier named in pattern_used captured); without a code nothing is
\* returned.
C13_CodeIsFourToEightDigits ==
    xp.pc = "returned" =>
        /\ xp.ret.kind = "tuple" =>
              /\ Len(xp.ret.code) >= MinDigits /\ Len(xp.ret.code) <= MaxDigits
              /\ \A k \in DOMAIN xp.ret.code : xp.ret.code[k] \in Digits
              /\ OccursIn(xp.result.content.text, xp.ret.code)
              /\ xp.ret.code = xp.found_code
              /\ xp.pattern_used \in {"main regex", "Vietnamese pattern",
                                      "simple pattern", "fallback pattern"}
        /\ xp.ret.kind # "tuple" => xp.ret = NoCode /\ xp.found_code = <<>>

\* C13 witness: a text with more than eight digits after its anchor gave a
\* code of exactly eight digits.
C13_Witness ==
    /\ xp.pc = "returned" /\ xp.ret.kind = "tuple"
    /\ Len(xp.ret.code) = MaxDigits
    /\ \E p \in 1..Len(xp.result.content.text) :
          RunLen(xp.result.content.text, p, IsDigit) > MaxDigits

\* C14 (SpecExtract): the patterns are searched in order and the chain stops
\* at the first that matches: when the main regex matches the text, it is the
\* only pattern searched and its capture is the code; pattern k is searched
\* only when none of the patterns before it matches; the code is the capture
\* of the last pattern searched, and when none of the four matches there is
\* no result.
C14_ShortCircuit ==
    xp.pc = "returned" /\ xp.result.content.some =>
        LET s == xp.result.content.text
        IN /\ xp.tried \in 1..4
           /\ \A k \in 1..(xp.tried - 1) : TierMatch(k, s) = <<>>
           /\ TierMatch(1, s) # <<>> =>
                 /\ xp.tried = 1
                 /\ xp.pattern_used = "main regex"
                 /\ xp.ret.kind = "tuple" /\ xp.ret.code = TierMatch(1, s)
           /\ TierMatch(xp.tried, s) # <<>> =>
                 /\ xp.pattern_used = TierNames[xp.tried]
                 /\ xp.ret.kind = "tuple" /\ xp.ret.code = TierMatch(xp.tried, s)
           /\ TierMatch(xp.tried, s) = <<>> =>
                 xp.tried = 4 /\ xp.pattern_used = "" /\ xp.ret = NoCode

\* C14 witness: a text that the main regex and the last-resort pattern both
\* match was settled by the main regex alone.
C14_Witness ==
    /\ xp.pc = "returned" /\ xp.result.content.some
    /\ xp.tried = 1 /\ xp.pattern_used = "main regex"
    /\ TierMatch(4, xp.result.content.text) # <<>>

\* the digit runs of s, whole: <<p, n>> is a run of n digits that starts at p,
\* with no digit just before it nor just after it
DigitRuns(s) ==
    {<<p, RunLen(s, p, IsDigit)>> :
        p \in {q \in 1..Len(s) : IsDigit(s[q]) /\ (q = 1 \/ ~IsDigit(s[q - 1]))}}

\* the run stands free: no letter and no underscore touches it
FreeStanding(s, r) ==
    /\ r[1] = 1 \/ ~IsWord(s[r[1] - 1])
    /\ r[1] + r[2] > Len(s) \/ ~IsWord(s[r[1] + r[2]])

NoEarlierTier(s) == \A k \in 1..3 : TierMatch(k, s) = <<>>

\* C15 as stated (SpecExtract): when none of the first three patterns matches
\* a text that holds a run of 4 to 8 digits, whatever touches the run (a letter
\* or an underscore included), the last-resort pattern returns such a run.
C15_Original ==
    xp.pc = "returned" /\ xp.result.content.some =>
        LET s == xp.result.content.text
            runs == {r \in DigitRuns(s) : r[2] >= MinDigits /\ r[2] <= MaxDigits}
        IN NoEarlierTier(s) /\ runs # {} =>
              /\ xp.pattern_used = "fallback pattern"
              /\ \E r \in runs : xp.ret.code = SubSeq(s, r[1], r[1] + r[2] - 1)

\* C15 amended (SpecExtract): when none of the first three patterns matches,
\* the last-resort pattern returns the leftmost run of 4 to 8 digits that
\* stands free (the start or the end of the text, or a character that is no
\* letter, digit or underscore, on each side); a run touched by a letter or an
\* underscore is passed over, and without a free-standing run there is no
\* result.
C15_FreeStandingRun ==
    xp.pc = "returned" /\ xp.result.content.some =>
        LET s == xp.result.content.text
            free == {r \in DigitRuns(s) :
                        r[2] >= MinDigits /\ r[2] <= MaxDigits /\ FreeStanding(s, r)}
            first == CHOOSE r \in free : \A q \in free : r[1] <= q[1]
        IN NoEarlierTier(s) =>
              /\ free # {} =>
                    /\ xp.pattern_used = "fallback pattern"
                    /\ xp.ret.code = SubSeq(s, first[1], first[1] + first[2] - 1)
              /\ free = {} => xp.ret = NoCode /\ xp.pattern_used = ""

\* C15 witness: the last-resort pattern returned a run that stands free in the
\* middle of other text.
C15_Witness ==
    /\ xp.pc = "returned" /\ xp.result.content.some
    /\ xp.pattern_used = "fallback pattern"
    /\ \E r \in DigitRuns(xp.result.content.text) :
          /\ r[1] > 1
          /\ xp.ret.code = SubSeq(xp.result.content.text, r[1], r[1] + r[2] - 1)

\* C16 (SpecLocator): whenever the UTF-8 search by sender and subject fails,
\* by raising or by returning a status other than OK, the sender-only search
\* is issued on the same session, and nothing is returned only when no
\* candidate of that search contains the filter.
C16_SearchFallback ==
    \A i \in Slots :
        inv[i].pc \in {"scan", "close", "logout", "exit", "located"}
        /\ inv[i].scoped \in {"NO", "raise"}
            => /\ inv[i].fallback
               /\ inv[i].pc = "located" /\ inv[i].searched /\ inv[i].failed = {}
                     => (inv[i].result.kind = "none" <=> MatchingCandidates(i) = {})

\* the ids of the search result from the newest down to id (all of them when
\* id is 0), in the order of the scan
ScanDownTo(cands, id) ==
    SelectSeq(Reversed(cands), LAMBDA x : x >= id)

\* C17 (SpecLocator): a fetch that returns a status other than OK or raises
\* (parsing and decoding included) does not end the scan: once the scan is
\* over, fetch has been called on every candidate from the newest down to the
\* one returned, on all of them when nothing is returned, and the one
\* returned is the most recent candidate that was fetched successfully and
\* contains the filter.
C17_FetchFaultsSkipped ==
    \A i \in Slots :
        inv[i].pc \in {"close", "logout", "exit", "located"} /\ inv[i].searched =>
            LET hits == MatchingCandidates(i)
                last == CHOOSE k \in hits : \A h \in hits : h <= k
            IN /\ ~inv[i].exc
               /\ inv[i].failed \subseteq {inv[i].fetched[k] : k \in DOMAIN inv[i].fetched}
               /\ inv[i].fetched = ScanDownTo(inv[i].cands, inv[i].found)
               /\ hits = {} => inv[i].found = 0 /\ inv[i].result = NoResult
               /\ hits # {} =>
                     /\ inv[i].found = inv[i].cands[last]
                     /\ inv[i].found \notin inv[i].failed
                     /\ inv[i].result.kind = "pair"

\* C17 witness: the fetch of the newest candidate failed, and the call has
\* returned the older candidate that contains the filter.
C17_Witness ==
    \E i \in Slots :
        /\ inv[i].pc = "located" /\ inv[i].searched
        /\ inv[i].found # 0 /\ inv[i].result.kind = "pair"
        /\ \E id \in inv[i].failed :
              /\ id > inv[i].found
              /\ Contains(Lower(mailbox[id].subject), Lower(inv[i].subject))


\* the marker element of a page: its first div of class challenge-code
Marker(html) == find(html.elems, "div", "challenge-code")
\* the text of the marker with the whitespace taken off: nothing around any
\* of its strings, so nothing at its ends
MarkerText(html) ==
    IF ~html.parses \/ Marker(html) = 0 THEN <<>>
    ELSE Concat([k \in 1..Len(html.elems[Marker(html)].strings) |->
                    Strip(html.elems[Marker(html)].strings[k])])
\* the request was answered with status 200 and the body was read
GetSucceeded == rs.fault = "" /\ rs.status = 200
\* C18: access_verify_link always returns and never raises; it returns None
\* when the response has another status than 200, when the request times out
\* or fails, when the page has no div of class challenge-code and when the
\* text of that div is empty once trimmed; otherwise it returns the text of
\* the div, trimmed: no whitespace at either end, and for a div holding one
\* string exactly that string stripped.
C18_ResolverOutcomes ==
    /\ rs.pc \in {"off", "start", "get", "text", "returned"}
    /\ rs.pc = "returned" =>
          /\ ~GetSucceeded => rs.ret = NoChallenge
          /\ GetSucceeded /\ MarkerText(rs.html) = <<>> => rs.ret = NoChallenge
          /\ GetSucceeded /\ MarkerText(rs.html) # <<>> =>
                LET strings == rs.html.elems[Marker(rs.html)].strings
                IN /\ rs.ret = Some(MarkerText(rs.html))
                   /\ ~IsSpace(rs.ret.text[1])
                   /\ ~IsSpace(rs.ret.text[Len(rs.ret.text)])
                   /\ Len(strings) = 1 => rs.ret.text = Strip(strings[1])
\* a page whose marker has whitespace around its text gave the trimmed text
C18_Witness ==
    /\ rs.pc = "returned" /\ GetSucceeded /\ rs.ret.some
    /\ \E k \in 1..Len(rs.html.elems[Marker(rs.html)].strings) :
          Strip(rs.html.elems[Marker(rs.html)].strings[k])
              # rs.html.elems[Marker(rs.html)].strings[k]

\* C20: every request access_verify_link issues goes to the link it was
\* handed, which the link pattern took out of a text and which begins with
\* https://www.netflix.com/account/travel/verify; without a link no request
\* is issued at all.
C20_GetTargetsExtractedLink ==
    /\ ~rs.link.some => rs.gets = <<>>
    /\ \A k \in 1..Len(rs.gets) :
          /\ rs.link.some /\ rs.gets[k] = rs.link.text
          /\ StartsWithAt(rs.gets[k], 1, VERIFY_PREFIX)
          /\ \E t \in LinkTexts :
                ExtractVerifyLink(t) = Some(rs.gets[k]) /\ Contains(t, rs.gets[k])
\* a request went out to a link with a query after the prefix
C20_Witness == rs.gets # <<>> /\ Len(rs.gets[1]) > Len(VERIFY_PREFIX)

\* the places of an invocation in the order the code goes through them
Places ==
    <<{"idle"}, {"send_limit", "send_searching"}, {"connect"}, {"login"},
      {"select"}, {"search"}, {"fallback"}, {"scan"}, {"close"}, {"logout"},
      {"exit"}, {"located"}, {"send_reply"}, {"send_error"},
      {"send_command_error"}, {"done"}>>
Rank(pc) == CHOOSE k \in DOMAIN Places : pc \in Places[k]
NoDuplicates(seq) == \A j, k \in DOMAIN seq : seq[j] = seq[k] => j = k

\* C19 (Spec): an invocation makes one attempt.  It never goes back to an
\* earlier place, the connection is asked for once (only right after the
\* searching note, and every answer to it leaves that place), at most one
\* session is opened, no id is fetched twice, and a verify invocation never
\* holds a link, so it issues no GET at all (one at most in the resolver
\* itself, see C20), whatever faults and not-found outcomes occur.
C19_NoRetry ==
    [][\A i \in Slots :
          /\ Rank(inv'[i].pc) >= Rank(inv[i].pc)
          /\ inv'[i] # inv[i] /\ inv'[i].pc = "connect" => inv[i].pc = "send_searching"
          /\ inv'[i].opened <= 1
          /\ inv'[i].opened # inv[i].opened /\ inv'[i].opened = 1
                => inv[i].pc = "connect"
          /\ NoDuplicates(inv'[i].fetched)
          /\ ~inv'[i].link.some]_vars
\* C19 witness: a verify invocation that met a fault has gone on to its
\* reply, with nothing found, without another attempt
C19_Witness ==
    \E i \in Slots :
        /\ inv[i].cmd = "verify" /\ inv[i].pc = "send_reply"
        /\ inv[i].reply = "no_challenge" /\ faults > 0

\* the entries of a window that are less than RATE_LIMIT_WINDOW seconds old
Young(times, t) == {k \in DOMAIN times : t - times[k] < RATE_LIMIT_WINDOW}
\* a call of is_rate_limited is the step that leaves the clock alone
IsCall == now' = now /\ lastcall'.user \in Users

\* C21 (SpecRate): a call of is_rate_limited for one user leaves the windows
\* of the other users as they were.  A rejected call records nothing: the
\* user's window keeps exactly its entries younger than 60 seconds, in their
\* order (which are all of them: a rejected call finds five young entries in
\* a window of five), and no admission is noted.  No window ever holds more
\* than RATE_LIMIT_MAX_REQUESTS entries.  A call is rejected exactly when
\* five entries of the window are younger than 60 seconds, so a user whose
\* window is full is admitted by the first call made once the oldest entry is
\* 60 seconds old, whatever calls were rejected before.
C21_RejectedCallRecordsNothing ==
    [][IsCall =>
          LET u == lastcall'.user
              old == user_request_times[u]
              new == user_request_times'[u]
          IN /\ \A v \in Users \ {u} :
                    user_request_times'[v] = user_request_times[v]
             /\ \A v \in Users : Len(user_request_times'[v]) <= RATE_LIMIT_MAX_REQUESTS
             /\ lastcall'.limited <=>
                    Cardinality(Young(old, now)) >= RATE_LIMIT_MAX_REQUESTS
             /\ lastcall'.limited =>
                    /\ new = SelectSeq(old, LAMBDA t : now - t < RATE_LIMIT_WINDOW)
                    /\ new = old
                    /\ admitted' = admitted
             /\ Len(old) = RATE_LIMIT_MAX_REQUESTS /\ now - old[1] >= RATE_LIMIT_WINDOW
                    => /\ ~lastcall'.limited
                       /\ new[Len(new)] = now
                       /\ admitted'[u] = Append(admitted[u], now)]_vars
\* C21 witness: a user with five admissions was rejected, called again and
\* was admitted, exactly 60 seconds after the oldest of the five
C21_Witness ==
    \E u \in Users :
        /\ lastcall.user = u /\ lastcall.retried /\ ~lastcall.limited
        /\ Len(admitted[u]) = RATE_LIMIT_MAX_REQUESTS + 1
        /\ now - admitted[u][1] = RATE_LIMIT_WINDOW
        /\ admitted[u][Len(admitted[u])] = now

\* the candidates of invocation i that are older than the one it stopped at,
\* match the filter and hold a text a sign-in code is found in
OlderWithCode(i) ==
    {k \in DOMAIN inv[i].cands :
        /\ inv[i].cands[k] < inv[i].found
        /\ Contains(Lower(mailbox[inv[i].cands[k]].subject), Lower(inv[i].subject))
        /\ mailbox[inv[i].cands[k]].body.some
        /\ ExtractCodeOf(mailbox[inv[i].cands[k]].body.text).found_code # <<>>}

\* C22 (SpecLocator): when the newest candidate that was fetched and matches
\* the filter has no plain-text content, get_netflix_emails stops at it all
\* the same: it returns the pair (None, None), no older candidate is ever
\* fetched, and get_sign_in_code turns that pair into None (the TypeError of
\* content[:500] is caught), whether or not an older matching message holds
\* a code.
C22_StopsAtMatchWithoutContent ==
    \A i \in Slots : inv[i].pc \in {"close", "logout", "exit", "located"} /\ inv[i].searched =>
        LET hits == MatchingCandidates(i)
            last == CHOOSE k \in hits : \A h \in hits : h <= k
            msg == mailbox[inv[i].cands[last]]
        IN hits # {} /\ extract_email_content(msg.body) = NoContent =>
              /\ inv[i].found = inv[i].cands[last]
              /\ inv[i].result = Pair(NoContent, NoDate)
              /\ \A k \in DOMAIN inv[i].fetched : inv[i].fetched[k] >= inv[i].found
              /\ SignInCodeOf(inv[i].result, now) = NoCode
\* C22 witness: the sign-in scan stopped at a matching message without text
\* while an older matching message with a code was left unfetched
C22_Witness ==
    \E i \in Slots :
        /\ inv[i].pc = "located" /\ inv[i].cmd = "signin" /\ inv[i].found # 0
        /\ ~inv[i].result.content.some
        /\ OlderWithCode(i) # {}
        /\ SignInCodeOf(inv[i].result, now) = NoCode
====
